---- MODULE Spec2Model ----
(***************************************************************************)
(* The four pre-commit hook scripts of .pre-commit-hooks/:                  *)
(*   check_for_panics.py, check_sql_ordering.py,                            *)
(*   fail_extremely_long_files.py, warn_long_files.py.                      *)
(* Each script is a loop over sys.argv[1:] followed by sys.exit.  One       *)
(* action models one iteration of a script's loop (the whole loop body),    *)
(* one action models its sys.exit.  File contents are byte sequences;       *)
(* decoded text is a sequence of code points.  The files of the model hold  *)
(* ASCII bytes, NUL, 0xFE and 0xFF and no carriage return.                  *)
(***************************************************************************)
EXTENDS Integers, Sequences, FiniteSets, TLC

\* Longest argument list handed to a script.
MaxArgs == 2

----------------------------------------------------------------------------
(* Literals: the code points of a Python string literal.                    *)

Ascii32 == " !\"#$%&'()*+,-./0123456789:;<=>?@ABCDEFGHIJKLMNOPQRSTUVWXYZ[\\]^_"
Ascii97 == "abcdefghijklmnopqrstuvwxyz{|}~"

Ord(c) ==
    IF c = "\n" THEN 10
    ELSE IF c = "\t" THEN 9
    ELSE IF \E k \in 1..Len(Ascii32) : SubSeq(Ascii32, k, k) = c
         THEN 31 + (CHOOSE k \in 1..Len(Ascii32) : SubSeq(Ascii32, k, k) = c)
         ELSE 96 + (CHOOSE k \in 1..Len(Ascii97) : SubSeq(Ascii97, k, k) = c)

B(s) == [k \in 1..Len(s) |-> Ord(SubSeq(s, k, k))]

\* One line of a file: the text followed by a newline.
L(s) == B(s) \o <<10>>

\* n copies of the byte sequence c.
Rep(n, c) == [k \in 1..(n * Len(c)) |-> c[((k - 1) % Len(c)) + 1]]

NUL == 0
NL == 10
BACKTICK == 96

----------------------------------------------------------------------------
(* Text primitives of Python used by the scripts.                           *)

\* str.isspace / regex \s on str patterns
Whitespace ==
    (9..13) \cup (28..32) \cup {133, 160, 5760} \cup (8192..8202)
        \cup {8232, 8233, 8239, 8287, 12288}

IsSpace(c) == c \in Whitespace

\* regex \w restricted to ASCII
IsWord(c) == c \in ((48..57) \cup (65..90) \cup (97..122) \cup {95})

\* lit occurs in t at position i
At(t, i, lit) ==
    /\ i >= 1
    /\ i + Len(lit) - 1 <= Len(t)
    /\ SubSeq(t, i, i + Len(lit) - 1) = lit

\* lit in t
Contains(t, lit) == \E i \in 1..Len(t) : At(t, i, lit)

\* str.upper on ASCII text
upper(t) == [k \in 1..Len(t) |-> IF t[k] \in 97..122 THEN t[k] - 32 ELSE t[k]]

\* str.strip: drop leading and trailing whitespace
strip(t) ==
    LET keep == {k \in 1..Len(t) : ~IsSpace(t[k])}
    IN  IF keep = {} THEN <<>>
        ELSE LET lo == CHOOSE k \in keep : \A m \in keep : k <= m
                 hi == CHOOSE k \in keep : \A m \in keep : k >= m
             IN  SubSeq(t, lo, hi)

\* str.endswith on file names
endswith(name, suffix) ==
    /\ Len(name) >= Len(suffix)
    /\ SubSeq(name, Len(name) - Len(suffix) + 1, Len(name)) = suffix

\* os.path.basename: what follows the last slash
basename(name) ==
    LET slashes == {k \in 1..Len(name) : SubSeq(name, k, k) = "/"}
    IN  IF slashes = {} THEN name
        ELSE LET last == CHOOSE k \in slashes : \A m \in slashes : k >= m
             IN  SubSeq(name, last + 1, Len(name))

\* fnmatch.fnmatch for patterns made of literal characters and '*':
\* '*' matches any run of characters, '/' included; the whole name must match.
RECURSIVE fnmatch(_, _)
fnmatch(name, pat) ==
    IF Len(pat) = 0 THEN Len(name) = 0
    ELSE IF SubSeq(pat, 1, 1) = "*"
         THEN \E k \in 0..Len(name) :
                  fnmatch(SubSeq(name, k + 1, Len(name)), SubSeq(pat, 2, Len(pat)))
         ELSE /\ Len(name) > 0
              /\ SubSeq(name, 1, 1) = SubSeq(pat, 1, 1)
              /\ fnmatch(SubSeq(name, 2, Len(name)), SubSeq(pat, 2, Len(pat)))

\* Positions where a line of the text starts.
LineStarts(t) ==
    IF Len(t) = 0 THEN {}
    ELSE {1} \cup {k + 1 : k \in {m \in 1..(Len(t) - 1) : t[m] = NL}}

\* Position where the line starting at s ends (its newline, or end of text).
LineEnd(t, s) ==
    CHOOSE e \in s..Len(t) :
        /\ t[e] = NL \/ e = Len(t)
        /\ \A m \in s..(e - 1) : t[m] # NL

\* f.readlines(): the lines in order, each keeping its newline.
readlines(t) ==
    LET S == LineStarts(t)
        st == [j \in 1..Cardinality(S) |->
                  CHOOSE s \in S : Cardinality({u \in S : u < s}) = j - 1]
    IN  [j \in 1..Cardinality(S) |-> SubSeq(t, st[j], LineEnd(t, st[j]))]

\* str.splitlines(): the lines in order, without their newline.
splitlines(t) ==
    LET ls == readlines(t)
    IN  [j \in 1..Len(ls) |->
            IF ls[j][Len(ls[j])] = NL THEN SubSeq(ls[j], 1, Len(ls[j]) - 1)
            ELSE ls[j]]

\* '\n'.join(lines)
RECURSIVE join(_)
join(ls) ==
    IF Len(ls) = 0 THEN <<>>
    ELSE IF Len(ls) = 1 THEN ls[1]
    ELSE ls[1] \o <<NL>> \o join(Tail(ls))

----------------------------------------------------------------------------
(* The files the scripts are run on.                                        *)

\* panic() calls with and without exemptions
GoPanics ==
       L("panic(\"boom\")")
    \o L("x := 1")
    \o L("panic(e) // ALLOW-PANIC")
    \o L("panic(e)")
    \o L("panic(e)")
    \o L("// lint:allow panic")
    \o L("y := 2")
    \o L("panic(y)")
    \o L("func init() { panic(1) }")
    \o L("recover()")

\* a sort clause with one key, alone
SqlOneKey == L("// list") \o L("ORDER BY created_at DESC")

\* a sort clause with a tie-break
SqlTwoKeys == L("ORDER BY created_at DESC, id ASC")

\* a one-key query followed by a call with two arguments
SqlThenCall ==
       B("q := ") \o <<BACKTICK>> \o B("SELECT id FROM t ORDER BY created_at DESC")
           \o <<BACKTICK, NL>>
    \o L("rows, err := db.Query(q)")

\* a one-key query spread over three lines
SqlMultiLine ==
       B("query := ") \o <<BACKTICK>> \o L("SELECT id")
    \o L("FROM t")
    \o B("ORDER BY created_at") \o <<BACKTICK, NL>>

\* an exemption comment three lines above one query and seven above another
SqlExempt ==
       L("// ALLOW-NONDETERMINISTIC-ORDER")
    \o L("a")
    \o L("b")
    \o L("ORDER BY x")
    \o L("c")
    \o L("d")
    \o L("e")
    \o L("ORDER BY y")

\* n lines of text, with a blank and a whitespace-only line in front
TextLines(n) == L("") \o L(" \t ") \o Rep(n, L("x"))

\* NUL bytes, none followed by NUL or newline
BinaryBytes == Rep(1001, <<NUL, 120, NL>>)

\* UTF-16 little endian with byte order mark
Utf16Bytes == <<255, 254>> \o Rep(1001, <<120, 0, NL, 0>>) \o <<NL, 0, 32, 0, NL, 0>>

\* an invalid UTF-8 byte on the second line
BadUtf8 == L("panic(1)") \o <<255, NL>> \o Rep(1001, L("x"))

File(openable, eio, bytes) == [openable |-> openable, eio |-> eio, bytes |-> bytes]

\* The file system: file name -> what opening and reading the file gives.
\* eio: reading the file past its first block raises OSError.
FS ==
       ("a.go"               :> File(TRUE, FALSE, GoPanics))
    @@ ("pkg/a_test.go"      :> File(TRUE, FALSE, GoPanics))
    @@ ("cmd/server/main.go" :> File(TRUE, FALSE, L("panic(\"boot\")")))
    @@ ("missing.go"         :> File(FALSE, FALSE, <<>>))
    @@ ("bad.go"             :> File(TRUE, FALSE, BadUtf8))
    @@ ("flaky.go"           :> File(TRUE, TRUE, Rep(1001, L("x"))))
    @@ ("q1.go"              :> File(TRUE, FALSE, SqlOneKey))
    @@ ("q2.go"              :> File(TRUE, FALSE, SqlTwoKeys))
    @@ ("q3.go"              :> File(TRUE, FALSE, SqlThenCall))
    @@ ("q4.go"              :> File(TRUE, FALSE, SqlMultiLine))
    @@ ("q5.go"              :> File(TRUE, FALSE, SqlExempt))
    @@ ("migrations/m.go"    :> File(TRUE, FALSE, SqlOneKey))
    @@ ("big1000.txt"        :> File(TRUE, FALSE, TextLines(1000)))
    @@ ("big1001.txt"        :> File(TRUE, FALSE, TextLines(1001)))
    @@ ("sub/go.sum"         :> File(TRUE, FALSE, TextLines(1001)))
    @@ ("mid500.txt"         :> File(TRUE, FALSE, TextLines(500)))
    @@ ("mid501.txt"         :> File(TRUE, FALSE, TextLines(501)))
    @@ ("bin.dat"            :> File(TRUE, FALSE, BinaryBytes))
    @@ ("u16.txt"            :> File(TRUE, FALSE, Utf16Bytes))

Paths == DOMAIN FS

\* open(filename, 'rb') and f.read(n)
read_bytes(filename, n) ==
    IF ~FS[filename].openable THEN [ok |-> FALSE, data |-> <<>>]
    ELSE LET b == FS[filename].bytes
         IN  [ok |-> TRUE,
              data |-> IF Len(b) <= n THEN b ELSE SubSeq(b, 1, n)]

\* bytes.decode('utf-8') on bytes below 0x80, 0xFE and 0xFF
utf8_decode(b) ==
    IF \E k \in 1..Len(b) : b[k] >= 128 THEN [ok |-> FALSE, text |-> <<>>]
    ELSE [ok |-> TRUE, text |-> b]

\* bytes.decode('utf-16'): the byte order mark gives the byte order and is
\* dropped; an odd number of bytes is a decode error
utf16_decode(b) ==
    IF Len(b) % 2 = 1 THEN [ok |-> FALSE, text |-> <<>>]
    ELSE LET le == ~(Len(b) >= 2 /\ b[1] = 254 /\ b[2] = 255)
             bom == Len(b) >= 2 /\ {b[1], b[2]} = {254, 255} /\ b[1] # b[2]
             off == IF bom THEN 2 ELSE 0
             unit(k) == IF le THEN b[off + 2 * k - 1] + 256 * b[off + 2 * k]
                        ELSE 256 * b[off + 2 * k - 1] + b[off + 2 * k]
         IN  [ok |-> TRUE, text |-> [k \in 1..((Len(b) - off) \div 2) |-> unit(k)]]

\* open(filename, 'r', encoding=encoding) and reading the whole file:
\* "oserror" (cannot open, or I/O error while reading), "decode"
\* (UnicodeDecodeError) or "ok" with the text
read_text(filename, encoding) ==
    IF ~FS[filename].openable \/ FS[filename].eio
    THEN [status |-> "oserror", text |-> <<>>]
    ELSE LET d == IF encoding = "utf-16" THEN utf16_decode(FS[filename].bytes)
                  ELSE utf8_decode(FS[filename].bytes)
         IN  IF d.ok THEN [status |-> "ok", text |-> d.text]
             ELSE [status |-> "decode", text |-> <<>>]

\* One line written to sys.stderr about a file; line is 0 when the message
\* is about the whole file.
Msg(kind, filename, line) == [kind |-> kind, file |-> filename, line |-> line]

----------------------------------------------------------------------------
(* check_for_panics.py                                                      *)

PANICS_EXCLUDED_PATTERNS ==
    <<"*_test.go", "testutils/**", "**/mocks/**", "cmd/server/main.go">>

LIT_PANIC_OPEN == B("panic(")
LIT_SLASHES == B("//")
LIT_ALLOW == B("ALLOW")
LIT_PANIC == B("PANIC")
LIT_LINT_ALLOW_PANIC == B("lint:allow panic")
LIT_COMMENT_OPEN == B("/*")
LIT_COMMENT_CLOSE == B("*/")
LIT_FUNC_INIT == B("func init()")
LIT_IF == B("if")
LIT_TESTING == B("testing.")

\* re.search(r'\bpanic\([^)]*\)', line)
search_panic(line) ==
    \E i \in 1..Len(line) :
        /\ i = 1 \/ ~IsWord(line[i - 1])
        /\ At(line, i, LIT_PANIC_OPEN)
        /\ \E j \in (i + 6)..Len(line) : line[j] = 41

\* ALLOW[\-_]PANIC at position j
at_allow_panic(t, j) ==
    /\ At(t, j, LIT_ALLOW)
    /\ j + 5 <= Len(t)
    /\ t[j + 5] \in {45, 95}
    /\ At(t, j + 6, LIT_PANIC)

\* // followed by \s* and what holds at the position after it
\* re.search(r'//\s*ALLOW[\-_]PANIC', t)
search_allow_panic(t) ==
    \E i \in 1..Len(t) :
        /\ At(t, i, LIT_SLASHES)
        /\ \E j \in (i + 2)..Len(t) :
               /\ \A k \in (i + 2)..(j - 1) : IsSpace(t[k])
               /\ at_allow_panic(t, j)

\* re.search(r'//\s*lint:allow panic', t)
search_lint_allow_panic(t) ==
    \E i \in 1..Len(t) :
        /\ At(t, i, LIT_SLASHES)
        /\ \E j \in (i + 2)..Len(t) :
               /\ \A k \in (i + 2)..(j - 1) : IsSpace(t[k])
               /\ At(t, j, LIT_LINT_ALLOW_PANIC)

\* re.search(r'/\*.*ALLOW[\-_]PANIC.*\*/', t); '.' matches all but newline
search_block_allow_panic(t) ==
    \E i \in 1..Len(t) :
        /\ At(t, i, LIT_COMMENT_OPEN)
        /\ \E j \in (i + 2)..Len(t) :
               /\ at_allow_panic(t, j)
               /\ \E k \in (j + 11)..Len(t) :
                      /\ At(t, k, LIT_COMMENT_CLOSE)
                      /\ \A m \in (i + 2)..(k - 1) : t[m] # NL

\* re.search(r'func init\(\)', t)
search_func_init(t) == Contains(t, LIT_FUNC_INIT)

\* re.search(r'^\s*if\s+testing\.', t)
search_if_testing(t) ==
    \E i \in 1..Len(t) :
        /\ \A k \in 1..(i - 1) : IsSpace(t[k])
        /\ At(t, i, LIT_IF)
        /\ \E j \in (i + 3)..Len(t) :
               /\ \A k \in (i + 2)..(j - 1) : IsSpace(t[k])
               /\ At(t, j, LIT_TESTING)

\* some pattern of EXEMPT_PATTERNS is found in t
search_exempt_panics(t) ==
    \/ search_allow_panic(t)
    \/ search_lint_allow_panic(t)
    \/ search_block_allow_panic(t)
    \/ search_func_init(t)
    \/ search_if_testing(t)

is_excluded_panics(filename) ==
    \E k \in 1..Len(PANICS_EXCLUDED_PATTERNS) :
        fnmatch(filename, PANICS_EXCLUDED_PATTERNS[k])

\* as has_exemption_panics, looking at the line itself only
has_exemption_panics_line(line, prev_line) == search_exempt_panics(line)

\* has_exemption(line, prev_line); prev_line is "" for the first line
has_exemption_panics(line, prev_line) ==
    \/ search_exempt_panics(line)
    \/ Len(prev_line) > 0 /\ search_exempt_panics(prev_line)

\* the loop over the lines of one file: the one-based numbers of the lines
\* reported, in order
scan_panics(lines) ==
    SelectSeq([n \in 1..Len(lines) |-> n],
              LAMBDA n : /\ search_panic(lines[n])
                         /\ ~has_exemption_panics(lines[n],
                                IF n > 1 THEN lines[n - 1] ELSE <<>>))

\* as panics_file, with a failure to read the file passed over in silence
panics_file_silent(filename) ==
    IF ~endswith(filename, ".go") \/ is_excluded_panics(filename)
    THEN [branch |-> "skipped", out |-> <<>>]
    ELSE LET r == read_text(filename, "utf-8")
         IN  IF r.status # "ok"
             THEN [branch |-> "failed", out |-> <<>>]
             ELSE LET found == scan_panics(readlines(r.text))
                  IN  [branch |-> "scanned",
                       out |-> [k \in 1..Len(found) |->
                                   Msg("finding", filename, found[k])]]

\* one iteration of the loop over sys.argv[1:]: the branch taken and the
\* messages written
panics_file(filename) ==
    IF ~endswith(filename, ".go") \/ is_excluded_panics(filename)
    THEN [branch |-> "skipped", out |-> <<>>]
    ELSE LET r == read_text(filename, "utf-8")
         IN  IF r.status # "ok"
             THEN [branch |-> "failed", out |-> <<Msg("failed", filename, 0)>>]
             ELSE LET found == scan_panics(readlines(r.text))
                  IN  [branch |-> "scanned",
                       out |-> [k \in 1..Len(found) |->
                                   Msg("finding", filename, found[k])]]

----------------------------------------------------------------------------
(* check_sql_ordering.py                                                    *)

SQL_EXCLUDED_PATTERNS ==
    <<"*_test.go", "testutils/**", "migrations/**",
      "internal/platform/postgres/migrations/**">>

LIT_ORDER_BY == B("ORDER BY")
LIT_ORDER == B("ORDER")
LIT_BY == B("BY")
LIT_EQ == B("=")
LIT_WALRUS == B(":=")
LIT_NONDETERMINISTIC == B("NONDETERMINISTIC")
LIT_LINT_ALLOW_ORDER == B("lint:allow nondeterministic-order")
COMMA == 44

\* lines of context taken before the line and from the line on (lines 63, 64)
CONTEXT_BEFORE == 5
CONTEXT_AFTER == 10
\* lines looked at for an exemption before the line and from the line on
\* (lines 33, 34)
EXEMPT_BEFORE == 3
EXEMPT_AFTER == 4

is_excluded_sql(filename) ==
    \E k \in 1..Len(SQL_EXCLUDED_PATTERNS) :
        fnmatch(filename, SQL_EXCLUDED_PATTERNS[k])

\* ALLOW[\-_]NONDETERMINISTIC[\-_]ORDER at position j
at_allow_order(t, j) ==
    /\ At(t, j, LIT_ALLOW)
    /\ j + 5 <= Len(t)
    /\ t[j + 5] \in {45, 95}
    /\ At(t, j + 6, LIT_NONDETERMINISTIC)
    /\ j + 22 <= Len(t)
    /\ t[j + 22] \in {45, 95}
    /\ At(t, j + 23, LIT_ORDER)

\* re.search(r'//\s*ALLOW[\-_]NONDETERMINISTIC[\-_]ORDER', t)
search_allow_order(t) ==
    \E i \in 1..Len(t) :
        /\ At(t, i, LIT_SLASHES)
        /\ \E j \in (i + 2)..Len(t) :
               /\ \A k \in (i + 2)..(j - 1) : IsSpace(t[k])
               /\ at_allow_order(t, j)

\* re.search(r'//\s*lint:allow nondeterministic-order', t)
search_lint_allow_order(t) ==
    \E i \in 1..Len(t) :
        /\ At(t, i, LIT_SLASHES)
        /\ \E j \in (i + 2)..Len(t) :
               /\ \A k \in (i + 2)..(j - 1) : IsSpace(t[k])
               /\ At(t, j, LIT_LINT_ALLOW_ORDER)

\* re.search(r'/\*.*ALLOW[\-_]NONDETERMINISTIC[\-_]ORDER.*\*/', t)
search_block_allow_order(t) ==
    \E i \in 1..Len(t) :
        /\ At(t, i, LIT_COMMENT_OPEN)
        /\ \E j \in (i + 2)..Len(t) :
               /\ at_allow_order(t, j)
               /\ \E k \in (j + 28)..Len(t) :
                      /\ At(t, k, LIT_COMMENT_CLOSE)
                      /\ \A m \in (i + 2)..(k - 1) : t[m] # NL

search_exempt_sql(t) ==
    \/ search_allow_order(t)
    \/ search_lint_allow_order(t)
    \/ search_block_allow_order(t)

\* has_exemption(lines, index), index = n - 1
has_exemption_sql(lines, n) ==
    LET index == n - 1
        start == IF index - EXEMPT_BEFORE > 0 THEN index - EXEMPT_BEFORE ELSE 0
        end == IF index + EXEMPT_AFTER < Len(lines) THEN index + EXEMPT_AFTER
               ELSE Len(lines)
    IN  \E i \in start..(end - 1) : search_exempt_sql(lines[i + 1])

\* the positions just after a match of ORDER\s+BY, ignoring case
order_by_ends(t) ==
    LET u == upper(t)
    IN  {j + 2 : j \in {j \in 1..Len(t) :
            \E i \in 1..(j - 6) :
                /\ At(u, i, LIT_ORDER)
                /\ \A k \in (i + 5)..(j - 1) : IsSpace(t[k])
                /\ At(u, j, LIT_BY)}}

\* re.search(r'ORDER\s+BY', t, re.IGNORECASE)
search_order_by(t) == order_by_ends(t) # {}

\* re.search(r'ORDER\s+BY\s+[^,]+(,)', t, re.IGNORECASE): whitespace after BY
\* and then the first comma of the rest of the text, at least one character
\* further on
search_order_by_comma(t) ==
    \E e \in order_by_ends(t) :
        /\ e <= Len(t)
        /\ IsSpace(t[e])
        /\ \E c \in (e + 2)..Len(t) :
               /\ t[c] = COMMA
               /\ \A m \in e..(c - 1) : t[m] # COMMA

\* as sql_trigger, with the parentheses closed after the first "or"
sql_trigger_any(line, content) ==
    \/ Contains(upper(line), LIT_ORDER_BY)
    \/ Contains(upper(content), LIT_ORDER_BY)

\* the condition of the if at lines 59-60
sql_trigger(line, content) ==
    \/ Contains(upper(line), LIT_ORDER_BY)
    \/ /\ Contains(upper(content), LIT_ORDER_BY)
       /\ \/ Contains(line, <<BACKTICK>>) /\ Contains(line, LIT_EQ)
          \/ Contains(line, LIT_WALRUS)

\* lines[context_start:context_end] for the line n = i + 1
context_start(lines, n) ==
    IF (n - 1) - CONTEXT_BEFORE > 0 THEN (n - 1) - CONTEXT_BEFORE ELSE 0

context_end(lines, n) ==
    IF (n - 1) + CONTEXT_AFTER < Len(lines) THEN (n - 1) + CONTEXT_AFTER
    ELSE Len(lines)

context_text(lines, n) ==
    join(SubSeq(lines, context_start(lines, n) + 1, context_end(lines, n)))

\* the body of the loop for line n: is an error printed and exit_code set
sql_reports(lines, content, n) ==
    /\ sql_trigger(lines[n], content)
    /\ ~has_exemption_sql(lines, n)
    /\ search_order_by(context_text(lines, n))
    /\ ~search_order_by_comma(context_text(lines, n))

\* the line the loop goes to after line n: enumerate() binds i anew on every
\* iteration, whatever line 86 assigned to it
loop_next(lines, n, reported) == n + 1

\* for i, line in enumerate(lines): the one-based numbers of the lines
\* reported, in order
RECURSIVE scan_sql(_, _, _)
scan_sql(lines, content, n) ==
    IF n > Len(lines) THEN <<>>
    ELSE LET reported == sql_reports(lines, content, n)
         IN  (IF reported THEN <<n>> ELSE <<>>)
                 \o scan_sql(lines, content, loop_next(lines, n, reported))

\* one iteration of the loop over sys.argv[1:]
sql_file(filename) ==
    IF ~endswith(filename, ".go") \/ is_excluded_sql(filename)
    THEN [branch |-> "skipped", out |-> <<>>]
    ELSE LET r == read_text(filename, "utf-8")
         IN  IF r.status # "ok"
             THEN [branch |-> "failed", out |-> <<Msg("failed", filename, 0)>>]
             ELSE LET found == scan_sql(splitlines(r.text), r.text, 1)
                  IN  [branch |-> "scanned",
                       out |-> [k \in 1..Len(found) |->
                                   Msg("finding", filename, found[k])]]

----------------------------------------------------------------------------
(* fail_extremely_long_files.py                                             *)

FAIL_LINES_THRESHOLD == 1000

\* f.read(1024) of the binary check, f.read(4) of the BOM check
SAMPLE_BYTES == 1024
BOM_BYTES == 4

LEN_EXCLUDED_PATTERNS ==
    <<"go.sum", "package-lock.json", "yarn.lock", "Cargo.lock", "poetry.lock",
      "pnpm-lock.yaml", "Pipfile.lock", "*.pb.go", "*.swagger.json",
      "*.generated.go", "vendor/**", "node_modules/**", ".swagger-codegen/**",
      "**/*.min.js", "**/*.min.css">>

\* as is_excluded_len, matching the full path only
is_excluded_len_path(filename) ==
    \E k \in 1..Len(LEN_EXCLUDED_PATTERNS) :
        fnmatch(filename, LEN_EXCLUDED_PATTERNS[k])

is_excluded_len(filename) ==
    \E k \in 1..Len(LEN_EXCLUDED_PATTERNS) :
        \/ fnmatch(filename, LEN_EXCLUDED_PATTERNS[k])
        \/ fnmatch(basename(filename), LEN_EXCLUDED_PATTERNS[k])

\* b'\0' in sample and not (b'\0\0' in sample or b'\0\n' in sample)
fail_is_binary(sample) ==
    /\ Contains(sample, <<NUL>>)
    /\ ~(Contains(sample, <<NUL, NUL>>) \/ Contains(sample, <<NUL, NL>>))

\* the encoding chosen from the first bytes of the file
fail_encoding(raw_data) ==
    IF At(raw_data, 1, <<255, 254>>) \/ At(raw_data, 1, <<254, 255>>)
    THEN "utf-16" ELSE "utf-8"

\* sum(1 for line in f if line.strip())
fail_line_count(text) ==
    Cardinality({s \in LineStarts(text) :
                    Len(strip(SubSeq(text, s, LineEnd(text, s)))) > 0})

\* as fail_exceeds, with the threshold itself over the limit
fail_exceeds_inclusive(line_count) == line_count >= FAIL_LINES_THRESHOLD

fail_exceeds(line_count) == line_count > FAIL_LINES_THRESHOLD

\* one iteration of the loop over sys.argv[1:]
fail_file(filename) ==
    IF is_excluded_len(filename)
    THEN [branch |-> "excluded", count |-> -1, out |-> <<>>]
    ELSE LET sample == read_bytes(filename, SAMPLE_BYTES)
         IN
         IF ~sample.ok
         THEN [branch |-> "unreadable", count |-> -1, out |-> <<>>]
         ELSE IF fail_is_binary(sample.data)
         THEN [branch |-> "binary", count |-> -1, out |-> <<>>]
         ELSE LET raw == read_bytes(filename, BOM_BYTES)
                  encoding == IF raw.ok THEN fail_encoding(raw.data) ELSE "utf-8"
                  r == read_text(filename, encoding)
              IN  IF r.status = "decode"
                  THEN [branch |-> "undecodable", count |-> -1, out |-> <<>>]
                  ELSE IF r.status = "oserror"
                  THEN [branch |-> "failed", count |-> -1,
                        out |-> <<Msg("failed", filename, 0)>>]
                  ELSE LET line_count == fail_line_count(r.text)
                       IN  [branch |-> "counted", count |-> line_count,
                            out |-> IF fail_exceeds(line_count)
                                    THEN <<Msg("finding", filename, 0)>>
                                    ELSE <<>>]

----------------------------------------------------------------------------
(* warn_long_files.py                                                       *)

MAX_LINES == 500

\* as warn_is_binary, with any NUL byte making the file binary
warn_is_binary_nul(sample) == Contains(sample, <<NUL>>)

\* b'\0' in sample and not (b'\0\0' in sample or b'\0\n' in sample)
warn_is_binary(sample) ==
    /\ Contains(sample, <<NUL>>)
    /\ ~(Contains(sample, <<NUL, NUL>>) \/ Contains(sample, <<NUL, NL>>))

warn_encoding(raw_data) ==
    IF At(raw_data, 1, <<255, 254>>) \/ At(raw_data, 1, <<254, 255>>)
    THEN "utf-16" ELSE "utf-8"

\* sum(1 for line in f if line.strip())
warn_line_count(text) ==
    Cardinality({s \in LineStarts(text) :
                    Len(strip(SubSeq(text, s, LineEnd(text, s)))) > 0})

warn_exceeds(line_count) == line_count > MAX_LINES

\* one iteration of the loop over sys.argv[1:]
warn_file(filename) ==
    LET sample == read_bytes(filename, SAMPLE_BYTES)
    IN
    IF ~sample.ok
    THEN [branch |-> "unreadable", count |-> -1, out |-> <<>>]
    ELSE IF warn_is_binary(sample.data)
    THEN [branch |-> "binary", count |-> -1, out |-> <<>>]
    ELSE LET raw == read_bytes(filename, BOM_BYTES)
             encoding == IF raw.ok THEN warn_encoding(raw.data) ELSE "utf-8"
             r == read_text(filename, encoding)
         IN  IF r.status = "decode"
             THEN [branch |-> "undecodable", count |-> -1, out |-> <<>>]
             ELSE IF r.status = "oserror"
             THEN [branch |-> "failed", count |-> -1,
                   out |-> <<Msg("failed", filename, 0)>>]
             ELSE LET line_count == warn_line_count(r.text)
                  IN  [branch |-> "counted", count |-> line_count,
                       out |-> IF warn_exceeds(line_count)
                               THEN <<Msg("warning", filename, 0)>>
                               ELSE <<>>]

----------------------------------------------------------------------------
(* The runs.  The hook runner hands the same argument list to every script  *)
(* it invokes; the scripts run independently of each other.                 *)

Scripts == {"panics", "sql", "fail", "warn"}

\* the scripts with an exit_code variable
Blocking == {"panics", "sql", "fail"}

\* the scripts started on one argument list: any one of them, or the two
\* length checks together
Invocations == {{s} : s \in Scripts} \cup {{"fail", "warn"}}

ArgLists == UNION {[1..n -> Paths] : n \in 0..MaxArgs}

VARIABLES
    argv,       \* sys.argv[1:]
    hooks,      \* the scripts started on argv
    idx,        \* per script: how many arguments its loop has gone through
    exit_code,  \* per blocking script: its exit_code variable
    stderr,     \* per script: the messages written, each with the position
                \* in argv of the file it is about
    trace,      \* per script: the branch each iteration took
    status      \* per script: the exit status, -1 while it runs

vars == <<argv, hooks, idx, exit_code, stderr, trace, status>>

Init ==
    /\ argv \in ArgLists
    /\ hooks \in Invocations
    /\ idx = [s \in Scripts |-> 0]
    /\ exit_code = [s \in Blocking |-> 0]
    /\ stderr = [s \in Scripts |-> <<>>]
    /\ trace = [s \in Scripts |-> <<>>]
    /\ status = [s \in Scripts |-> -1]

Running(s) == s \in hooks /\ status[s] = -1

\* the messages of one iteration, with the position of the file in argv
Written(out, arg) ==
    [k \in 1..Len(out) |->
        [kind |-> out[k].kind, arg |-> arg, file |-> out[k].file,
         line |-> out[k].line]]

HasFinding(out) == \E k \in 1..Len(out) : out[k].kind = "finding"

\* exit_code = 1 next to the print of a finding (check_for_panics.py)
panics_exit_code(code, out) == IF HasFinding(out) THEN 1 ELSE code

\* exit_code = 1 next to the print of a finding (check_sql_ordering.py)
sql_exit_code(code, out) == IF HasFinding(out) THEN 1 ELSE code

\* as fail_exit_code, with the exit code following the last file
fail_exit_code_last(code, out) == IF HasFinding(out) THEN 1 ELSE 0

\* exit_code = 1 next to the print of a finding (fail_extremely_long_files.py)
fail_exit_code(code, out) == IF HasFinding(out) THEN 1 ELSE code

\* as warn_exit_status, with a warning counting as a failure
warn_exit_status_strict(written) ==
    IF \E k \in 1..Len(written) : written[k].kind = "warning" THEN 1 ELSE 0

\* sys.exit(0) of warn_long_files.py, whatever was written
warn_exit_status(written) == 0

\* What one iteration of each script does with each file of FS.
PanicsResult == [p \in Paths |-> panics_file(p)]
SqlResult == [p \in Paths |-> sql_file(p)]
FailResult == [p \in Paths |-> fail_file(p)]
WarnResult == [p \in Paths |-> warn_file(p)]

Step(s, r) ==
    /\ idx' = [idx EXCEPT ![s] = @ + 1]
    /\ stderr' = [stderr EXCEPT ![s] = @ \o Written(r.out, idx[s] + 1)]
    /\ trace' = [trace EXCEPT ![s] = Append(@, [file |-> argv[idx[s] + 1],
                                                 branch |-> r.branch,
                                                 count |-> r.count])]
    /\ UNCHANGED <<argv, hooks, status>>

\* check_for_panics.py: one iteration of the loop over the arguments
PanicsFile ==
    /\ Running("panics")
    /\ idx["panics"] < Len(argv)
    /\ LET r == PanicsResult[argv[idx["panics"] + 1]]
       IN  /\ Step("panics", [branch |-> r.branch, count |-> -1, out |-> r.out])
           /\ exit_code' = [exit_code EXCEPT
                               !["panics"] = panics_exit_code(@, r.out)]

\* check_for_panics.py: sys.exit(exit_code)
PanicsExit ==
    /\ Running("panics")
    /\ idx["panics"] = Len(argv)
    /\ status' = [status EXCEPT !["panics"] = exit_code["panics"]]
    /\ UNCHANGED <<argv, hooks, idx, exit_code, stderr, trace>>

\* check_sql_ordering.py: one iteration of the loop over the arguments
SqlFile ==
    /\ Running("sql")
    /\ idx["sql"] < Len(argv)
    /\ LET r == SqlResult[argv[idx["sql"] + 1]]
       IN  /\ Step("sql", [branch |-> r.branch, count |-> -1, out |-> r.out])
           /\ exit_code' = [exit_code EXCEPT !["sql"] = sql_exit_code(@, r.out)]

\* check_sql_ordering.py: sys.exit(exit_code)
SqlExit ==
    /\ Running("sql")
    /\ idx["sql"] = Len(argv)
    /\ status' = [status EXCEPT !["sql"] = exit_code["sql"]]
    /\ UNCHANGED <<argv, hooks, idx, exit_code, stderr, trace>>

\* fail_extremely_long_files.py: one iteration of the loop over the arguments
FailFile ==
    /\ Running("fail")
    /\ idx["fail"] < Len(argv)
    /\ LET r == FailResult[argv[idx["fail"] + 1]]
       IN  /\ Step("fail", r)
           /\ exit_code' = [exit_code EXCEPT !["fail"] = fail_exit_code(@, r.out)]

\* fail_extremely_long_files.py: sys.exit(exit_code)
FailExit ==
    /\ Running("fail")
    /\ idx["fail"] = Len(argv)
    /\ status' = [status EXCEPT !["fail"] = exit_code["fail"]]
    /\ UNCHANGED <<argv, hooks, idx, exit_code, stderr, trace>>

\* warn_long_files.py: one iteration of the loop over the arguments
WarnFile ==
    /\ Running("warn")
    /\ idx["warn"] < Len(argv)
    /\ Step("warn", WarnResult[argv[idx["warn"] + 1]])
    /\ UNCHANGED exit_code

\* warn_long_files.py: sys.exit(0)
WarnExit ==
    /\ Running("warn")
    /\ idx["warn"] = Len(argv)
    /\ status' = [status EXCEPT !["warn"] = warn_exit_status(stderr["warn"])]
    /\ UNCHANGED <<argv, hooks, idx, exit_code, stderr, trace>>

Next ==
    \/ PanicsFile
    \/ PanicsExit
    \/ SqlFile
    \/ SqlExit
    \/ FailFile
    \/ FailExit
    \/ WarnFile
    \/ WarnExit

Spec == Init /\ [][Next]_vars

TypeOK ==
    /\ argv \in ArgLists
    /\ hooks \in Invocations
    /\ \A s \in Scripts : idx[s] \in 0..Len(argv) /\ status[s] \in {-1, 0, 1}
    /\ \A s \in Blocking : exit_code[s] \in {0, 1}

----------------------------------------------------------------------------
(* Properties.                                                              *)

\* the positions in stderr[s] of the messages of one kind about argument i
MsgsAt(s, i, kind) ==
    {k \in 1..Len(stderr[s]) : stderr[s][k].arg = i /\ stderr[s][k].kind = kind}

\* the lines script s reported in argument i
LinesAt(s, i) == {stderr[s][k].line : k \in MsgsAt(s, i, "finding")}

\* the file cannot be read: it cannot be opened, or reading it fails
Unreadable(p) == ~FS[p].openable \/ FS[p].eio

\* the text of the file as UTF-8, the empty text when it cannot be had
Utf8Text == [p \in Paths |->
    LET r == read_text(p, "utf-8") IN IF r.status = "ok" THEN r.text ELSE <<>>]

\* C1: in the three blocking scripts the exit code starts at 0, never goes
\* back from 1 to 0, is 1 exactly when a finding has been written, and is
\* the exit status of the process.
C1_ExitCode ==
    /\ \A s \in Blocking : exit_code[s] = 0
    /\ [][\A s \in Blocking : exit_code[s] = 1 => exit_code'[s] = 1]_vars
    /\ [](\A s \in Blocking :
            /\ exit_code[s] = 1 <=> (\E i \in 1..Len(argv) : MsgsAt(s, i, "finding") # {})
            /\ status[s] # -1 => status[s] = exit_code[s])

\* a blocking script has exited with 1 after a finding in its first argument
\* and none in its second
C1_Witness ==
    \E s \in Blocking :
        /\ status[s] = 1
        /\ Len(argv) = 2
        /\ MsgsAt(s, 1, "finding") # {}
        /\ MsgsAt(s, 2, "finding") = {}

\* C2: warn_long_files.py never exits with a status other than 0.
C2_WarnExitsZero == status["warn"] \in {-1, 0}

\* warn_long_files.py has exited after a warning and after a failure to
\* process a file
C2_Witness ==
    /\ status["warn"] = 0
    /\ \E i \in 1..Len(argv) : MsgsAt("warn", i, "warning") # {}
    /\ \E i \in 1..Len(argv) : MsgsAt("warn", i, "failed") # {}

\* the number of lines of the file, decoded as fail_extremely_long_files.py
\* decodes it, that hold a character that is not whitespace; -1 when the
\* file is excluded, unreadable, binary or not decodable
C3_NonEmptyLines == [p \in Paths |->
    IF is_excluded_len(p) \/ Unreadable(p) THEN -1
    ELSE IF fail_is_binary(read_bytes(p, SAMPLE_BYTES).data) THEN -1
    ELSE LET r == read_text(p, fail_encoding(read_bytes(p, BOM_BYTES).data))
         IN  IF r.status # "ok" THEN -1
             ELSE Cardinality({s \in LineStarts(r.text) :
                      \E k \in s..LineEnd(r.text, s) : ~IsSpace(r.text[k])})]

\* C3: fail_extremely_long_files.py reports a file it can count exactly when
\* the file has more than 1000 lines with a non-whitespace character, and
\* then the exit code is 1.
C3_Threshold ==
    \A i \in 1..idx["fail"] :
        C3_NonEmptyLines[argv[i]] >= 0 =>
            /\ MsgsAt("fail", i, "finding") # {} <=> C3_NonEmptyLines[argv[i]] > 1000
            /\ MsgsAt("fail", i, "finding") # {} => exit_code["fail"] = 1

\* a file of exactly 1000 such lines (and two blank ones) has passed and a
\* file of 1001 has been reported
C3_Witness ==
    \E i, j \in 1..idx["fail"] :
        /\ C3_NonEmptyLines[argv[i]] = 1000
        /\ MsgsAt("fail", i, "finding") = {}
        /\ C3_NonEmptyLines[argv[j]] = 1001
        /\ MsgsAt("fail", j, "finding") # {}

ExcludedPatterns ==
    [s \in Blocking |->
        IF s = "panics" THEN PANICS_EXCLUDED_PATTERNS
        ELSE IF s = "sql" THEN SQL_EXCLUDED_PATTERNS
        ELSE LEN_EXCLUDED_PATTERNS]

\* the full path or the base name of p matches an exclusion pattern of s
C4_Matches == [s \in Blocking |-> [p \in Paths |->
    \E k \in 1..Len(ExcludedPatterns[s]) :
        \/ fnmatch(p, ExcludedPatterns[s][k])
        \/ fnmatch(basename(p), ExcludedPatterns[s][k])]]

\* C4: an iteration over a file whose full path or base name matches an
\* exclusion pattern of the script writes no finding and leaves the exit
\* code as it was.
C4_Excluded ==
    [][\A s \in Blocking :
          (idx'[s] = idx[s] + 1 /\ C4_Matches[s][argv[idx[s] + 1]]) =>
              /\ exit_code'[s] = exit_code[s]
              /\ \A k \in (Len(stderr[s]) + 1)..Len(stderr'[s]) :
                     stderr'[s][k].kind # "finding"]_vars

\* a script has gone through an excluded file and then through a file of
\* the same content that is not excluded, and reported only the second
C4_Witness ==
    \E s \in Blocking :
        /\ idx[s] = 2
        /\ C4_Matches[s][argv[1]]
        /\ ~C4_Matches[s][argv[2]]
        /\ FS[argv[1]] = FS[argv[2]]
        /\ MsgsAt(s, 1, "finding") = {}
        /\ MsgsAt(s, 2, "finding") # {}

\* the file is one check_for_panics.py or check_sql_ordering.py reads
Included(s, p) ==
    /\ endswith(p, ".go")
    /\ \A k \in 1..Len(ExcludedPatterns[s]) : ~fnmatch(p, ExcludedPatterns[s][k])

\* the lines of the file that hold a panic call while neither they nor the
\* line before them hold an exemption
C5_Expected == [p \in Paths |->
    IF ~Included("panics", p) THEN {}
    ELSE LET lines == readlines(Utf8Text[p])
         IN  {n \in 1..Len(lines) :
                 /\ search_panic(lines[n])
                 /\ ~search_exempt_panics(lines[n])
                 /\ n = 1 \/ ~search_exempt_panics(lines[n - 1])}]

\* C5: in a file check_for_panics.py reads, the lines reported are the lines
\* that match the panic pattern and have no exemption on them or on the
\* line just before.
C5_PanicFindings ==
    \A i \in 1..idx["panics"] :
        (Included("panics", argv[i]) /\ read_text(argv[i], "utf-8").status = "ok")
            => LinesAt("panics", i) = C5_Expected[argv[i]]

\* a file has been scanned in which a panic call is reported although an
\* exemption stands two lines above it, and another is not reported because
\* of the exemption on the line above it
C5_Witness ==
    \E i \in 1..idx["panics"] :
        LET lines == readlines(Utf8Text[argv[i]])
        IN  /\ Included("panics", argv[i])
            /\ \E n \in LinesAt("panics", i) :
                   n > 2 /\ search_exempt_panics(lines[n - 2])
            /\ \E n \in 2..Len(lines) :
                   /\ n \notin LinesAt("panics", i)
                   /\ search_panic(lines[n])
                   /\ ~search_exempt_panics(lines[n])
                   /\ search_exempt_panics(lines[n - 1])

\* what one iteration of script s writes about a file
Result(s) ==
    IF s = "panics" THEN PanicsResult
    ELSE IF s = "sql" THEN SqlResult
    ELSE IF s = "fail" THEN FailResult
    ELSE WarnResult

\* the messages of script s about argument j, in order
AboutArg(s, j) == SelectSeq(stderr[s], LAMBDA m : m.arg = j)

\* script s wrote nothing but failures about the unreadable files
C6_Skipped(s) ==
    \A i \in 1..idx[s] :
        Unreadable(argv[i]) =>
            MsgsAt(s, i, "finding") = {} /\ MsgsAt(s, i, "warning") = {}

\* after an unreadable file, script s treated every later file as it treats
\* that file alone, and a finding there has set the exit code
C6_Later(s) ==
    \A i, j \in 1..idx[s] :
        (i < j /\ Unreadable(argv[i])) =>
            /\ AboutArg(s, j) = Written(Result(s)[argv[j]].out, j)
            /\ (s \in Blocking /\ HasFinding(Result(s)[argv[j]].out))
                   => exit_code[s] = 1

\* C6 as stated: every script writes a per-file error message about a file
\* that cannot be read, skips it and goes on with the later files.
C6_Original ==
    \A s \in Scripts :
        /\ \A i \in 1..idx[s] :
               Unreadable(argv[i]) => MsgsAt(s, i, "failed") # {}
        /\ C6_Skipped(s)
        /\ C6_Later(s)

\* C6, amended: check_for_panics.py and check_sql_ordering.py write a
\* per-file error message about a file they read (named *.go, not excluded)
\* that cannot be read; the two length scripts write nothing about a file
\* that cannot be opened; every script skips the file and goes on with the
\* later files, whose findings are written and set the exit code.
C6_Amended ==
    \A s \in Scripts :
        /\ \A i \in 1..idx[s] :
               Unreadable(argv[i]) =>
                   /\ (s \in {"panics", "sql"} /\ Included(s, argv[i]))
                          => MsgsAt(s, i, "failed") # {}
                   /\ (s \in {"fail", "warn"} /\ ~FS[argv[i]].openable)
                          => AboutArg(s, i) = <<>>
        /\ C6_Skipped(s)
        /\ C6_Later(s)

\* a blocking script has exited with 1 after a file it could not read,
\* reported or passed over, and a finding in the file after it
C6_Witness ==
    \E s \in Blocking :
        /\ status[s] = 1
        /\ Len(argv) = 2
        /\ Unreadable(argv[1])
        /\ s = "fail" <=> MsgsAt(s, 1, "failed") = {}
        /\ MsgsAt(s, 2, "finding") # {}

\* the lines of the file as check_sql_ordering.py splits them
SqlLines == [p \in Paths |->
    IF Included("sql", p) THEN splitlines(Utf8Text[p]) ELSE <<>>]

HasKeyword(line) == Contains(upper(line), LIT_ORDER_BY)

\* the number of comma-separated keys of the sort clause of the line: one
\* more than the commas that follow the first ORDER BY of the line
SortKeys(line) ==
    LET u == upper(line)
        first == CHOOSE i \in 1..Len(line) :
                     At(u, i, LIT_ORDER_BY) /\ \A m \in 1..(i - 1) : ~At(u, m, LIT_ORDER_BY)
    IN  1 + Cardinality({c \in (first + 8)..Len(line) : line[c] = COMMA})

\* an exemption pattern within 3 lines before or after line n
ExemptionNear(lines, n) ==
    \E m \in (n - 3)..(n + 3) :
        m \in 1..Len(lines) /\ search_exempt_sql(lines[m])

\* the keyword lines with one sort key and no exemption near
C7_OneKey == [p \in Paths |->
    {n \in 1..Len(SqlLines[p]) :
        /\ HasKeyword(SqlLines[p][n])
        /\ SortKeys(SqlLines[p][n]) = 1
        /\ ~ExemptionNear(SqlLines[p], n)}]

\* the keyword lines with at least two sort keys
C7_TwoKeys == [p \in Paths |->
    {n \in 1..Len(SqlLines[p]) :
        HasKeyword(SqlLines[p][n]) /\ SortKeys(SqlLines[p][n]) >= 2}]

\* C7: in a file check_sql_ordering.py reads, every line with ORDER BY and a
\* single sort key is reported when no exemption pattern stands within 3
\* lines of it, whatever else the context window holds, and no line with
\* ORDER BY and two sort keys is reported.
C7_OrderingFindings ==
    \A i \in 1..idx["sql"] :
        (Included("sql", argv[i]) /\ read_text(argv[i], "utf-8").status = "ok") =>
            /\ C7_OneKey[argv[i]] \subseteq LinesAt("sql", i)
            /\ C7_TwoKeys[argv[i]] \cap LinesAt("sql", i) = {}
            /\ C7_OneKey[argv[i]] # {} => exit_code["sql"] = 1

\* C8 as stated: every line check_sql_ordering.py reports holds ORDER BY.
C8_Original ==
    \A k \in 1..Len(stderr["sql"]) :
        stderr["sql"][k].kind = "finding" =>
            HasKeyword(SqlLines[stderr["sql"][k].file][stderr["sql"][k].line])

\* the line is an assignment as line 60 tests for one
IsAssignment(line) ==
    \/ Contains(line, <<BACKTICK>>) /\ Contains(line, LIT_EQ)
    \/ Contains(line, LIT_WALRUS)

\* C8, amended: every line check_sql_ordering.py reports holds ORDER BY, or
\* is an assignment (it holds ":=", or a backtick and "=") whose context
\* window of 5 lines before and 10 from the line on holds a sort clause
\* keyword.
C8_Amended ==
    \A k \in 1..Len(stderr["sql"]) :
        stderr["sql"][k].kind = "finding" =>
            LET lines == SqlLines[stderr["sql"][k].file]
                n == stderr["sql"][k].line
            IN  \/ HasKeyword(lines[n])
                \/ /\ IsAssignment(lines[n])
                   /\ search_order_by(context_text(lines, n))

\* an assignment line without ORDER BY has been reported
C8_Witness ==
    \E k \in 1..Len(stderr["sql"]) :
        /\ stderr["sql"][k].kind = "finding"
        /\ ~HasKeyword(SqlLines[stderr["sql"][k].file][stderr["sql"][k].line])
        /\ IsAssignment(SqlLines[stderr["sql"][k].file][stderr["sql"][k].line])

\* C9: after a finding at a line, no later line inside the context window
\* of that line is reported in the same pass over the file.
C9_OneFindingPerWindow ==
    \A k1, k2 \in 1..Len(stderr["sql"]) :
        LET f == stderr["sql"][k1]
            g == stderr["sql"][k2]
        IN  (/\ f.kind = "finding"
             /\ g.kind = "finding"
             /\ f.arg = g.arg
             /\ f.line < g.line)
                => g.line - 1 >= context_end(SqlLines[f.file], f.line)

\* the arguments both length scripts have gone through
BothDone ==
    IF {"fail", "warn"} \subseteq hooks
    THEN {i \in 1..Len(argv) : i <= idx["fail"] /\ i <= idx["warn"]}
    ELSE {}

\* C10 as stated: warn_long_files.py skips a file exactly when
\* fail_extremely_long_files.py skips it and counts the same lines
\* otherwise; it warns about every file the other reports and about no file
\* the other skips.
C10_Original ==
    \A i \in BothDone :
        LET f == trace["fail"][i]
            w == trace["warn"][i]
        IN  /\ f.branch = "counted" <=> w.branch = "counted"
            /\ f.count = w.count
            /\ MsgsAt("fail", i, "finding") # {} => MsgsAt("warn", i, "warning") # {}
            /\ f.branch # "counted" => MsgsAt("warn", i, "warning") = {}

\* C10, amended: warn_long_files.py has no exclusion list; on a file
\* fail_extremely_long_files.py does not exclude it takes the same branch
\* (unreadable, binary, undecodable, failed, counted) and counts the same
\* lines, and it warns exactly when the count is over 500; it warns about
\* every file the other reports and about no file the other skips for
\* another reason than exclusion.
C10_Amended ==
    \A i \in BothDone :
        LET f == trace["fail"][i]
            w == trace["warn"][i]
        IN  /\ w.branch # "excluded"
            /\ f.branch # "excluded" => (f.branch = w.branch /\ f.count = w.count)
            /\ MsgsAt("warn", i, "warning") # {} <=> w.count > 500
            /\ MsgsAt("fail", i, "finding") # {} => MsgsAt("warn", i, "warning") # {}
            /\ f.branch \notin {"counted", "excluded"}
                   => MsgsAt("warn", i, "warning") = {}

\* both scripts are through: one file reported by the first and warned
\* about by the second, one excluded by the first and warned about by the
\* second
C10_Witness ==
    /\ status["fail"] = 1
    /\ status["warn"] = 0
    /\ \E i, j \in BothDone :
           /\ MsgsAt("fail", i, "finding") # {}
           /\ MsgsAt("warn", i, "warning") # {}
           /\ trace["fail"][j].branch = "excluded"
           /\ MsgsAt("warn", j, "warning") # {}

====
